---- MODULE Spec2Model ----
(***************************************************************************)
(* Stress-transformation visualizer: the Mohr's-circle viewport, the two   *)
(* animation loops with their smoothers, and the stress-transformation     *)
(* formulas, as state machines.                                            *)
(*                                                                         *)
(* Numbers.  The program computes in binary floating point; the model      *)
(* computes in fixed point, rounding to nearest as the hardware does:      *)
(*   zoom      in units of 1/ZoomScale                                     *)
(*   stress    in units of 1/MPa megapascal                                *)
(*   angles    in units of 1/Deg degree                                    *)
(*   cos, sin  in units of 1/TrigScale                                     *)
(* Halving (x / 2) is exact in binary floating point; the model keeps it   *)
(* exact by keeping every stress value on an even grid (StressGrid).        *)
(***************************************************************************)
EXTENDS Integers, Sequences, FiniteSets

VARIABLES
    \* ---- MohrsCircle viewport (MohrsCircle.jsx 13-17)
    zoom,        \* useState(1.6)
    pan,         \* useState({x: 0, y: 0})
    isDragging,  \* useState(false)
    isPanning,   \* useRef(false)
    panStart,    \* useRef({mx, my, px, py})
    \* ---- one render of the formulas: the props handed down by App and
    \*      what App, MohrsCircle, BodyOrientation and StressGraph compute
    inp,         \* [sigmaX, sigmaY, tauXY, theta]
    out,         \* the values rendered from inp
    \* ---- App state as the views see it (part_000 35-38)
    app,         \* the props of the latest render: stress, theta, angle range
    committed,   \* the props of the latest render whose effects have run
    mounted,
    budget,      \* frames still to be explored (-1: no limit)
    \* ---- StressGraph (part_001 37-169)
    sgDisplayed, \* displayedRef.current
    sgTarget,    \* targetRef.current
    sgAnimRef,   \* animRef.current (0: null)
    sgPending,   \* the frame callbacks scheduled and not yet run or cancelled
    sgView,      \* what the latest render() put into the svg
    sgSets,      \* target writes since the latest frame, and before it
    \* ---- BodyOrientation (part_001 181-362)
    displayThetaRef, \* displayThetaRef.current
    targetThetaRef,  \* targetThetaRef.current
    boAnimRef,    \* animRef.current (0: null)
    boPending,    \* the frame callbacks scheduled and not yet run or cancelled
    boView,       \* what the latest draw() put on the canvas
    boSets,       \* target writes since the latest frame, and before it
    dragStart     \* dragStart.current of the drag-to-rotate gesture

vpVars == <<zoom, pan, isDragging, isPanning, panStart>>

fnVars == <<inp, out>>

appVars == <<app, committed, mounted, budget>>

sgVars == <<sgDisplayed, sgTarget, sgAnimRef, sgPending, sgView, sgSets>>

boVars ==
    <<displayThetaRef, targetThetaRef, boAnimRef, boPending, boView, boSets,
      dragStart>>

loopVars == <<appVars, sgVars, boVars>>

\* what the actions of one part leave alone
notVp == <<fnVars, loopVars>>

notFn == <<vpVars, loopVars>>

notLoop == <<vpVars, fnVars>>

vars == <<vpVars, fnVars, loopVars>>

(***************************************************************************)
(* Arithmetic                                                              *)
(***************************************************************************)
Abs(x) == IF x < 0 THEN -x ELSE x

Sgn(x) == IF x < 0 THEN -1 ELSE IF x > 0 THEN 1 ELSE 0

Min(a, b) == IF a <= b THEN a ELSE b

Max(a, b) == IF a >= b THEN a ELSE b

\* a * n / d rounded to nearest (half away from zero), d > 0, computed on
\* quotient and remainder so that no intermediate exceeds the integer range.
MulDiv(a, n, d) ==
    LET x == Abs(a)
        m == Abs(n)
        q == x \div d
        r == x % d
    IN  Sgn(a) * Sgn(n) * (q * m + (r * m + d \div 2) \div d)

(***************************************************************************)
(* Viewport: zoom and pan of the Mohr's-circle view                        *)
(***************************************************************************)
ZoomScale == 100

ZoomInit == 160      \* 1.6

ZoomMin == 40        \* 0.4

ZoomMax == 800       \* 8

ZoomReset == 100     \* 1

\* pointer positions the gestures are driven with, and the pan range explored
MaxPan == 60

Pointers == {<<0, 0>>, <<30, 20>>}

\* Math.min(Math.max(z * factor, 0.4), 8), factor = 1.12 or 1 / 1.12
WheelZoom(z, deltaY) ==
    LET scaled == IF deltaY < 0 THEN MulDiv(z, 112, 100) ELSE MulDiv(z, 100, 112)
    IN  Min(Max(scaled, ZoomMin), ZoomMax)

handleWheel(deltaY) ==
    /\ zoom' = WheelZoom(zoom, deltaY)
    /\ UNCHANGED <<pan, isDragging, isPanning, panStart, notVp>>

\* Math.min(z * 1.25, 8)
ButtonZoomInNoClamp(z) == MulDiv(z, 125, 100)

ButtonZoomIn(z) == Min(MulDiv(z, 125, 100), ZoomMax)

\* Math.max(z / 1.25, 0.4)
ButtonZoomOut(z) == Max(MulDiv(z, 100, 125), ZoomMin)

ZoomInClick ==
    /\ zoom' = ButtonZoomIn(zoom)
    /\ UNCHANGED <<pan, isDragging, isPanning, panStart, notVp>>

ZoomOutClick ==
    /\ zoom' = ButtonZoomOut(zoom)
    /\ UNCHANGED <<pan, isDragging, isPanning, panStart, notVp>>

Mohr_handleMouseDown(x, y) ==
    /\ isPanning' = TRUE
    /\ isDragging' = TRUE
    /\ panStart' = [mx |-> x, my |-> y, px |-> pan.x, py |-> pan.y]
    /\ UNCHANGED <<zoom, pan, notVp>>

\* a plausible slip: the test of isPanning left out of the move handler
Mohr_handleMouseMoveAlways(x, y) ==
    /\ pan' = [x |-> panStart.px + (x - panStart.mx),
               y |-> panStart.py + (y - panStart.my)]
    /\ Abs(pan'.x) <= MaxPan
    /\ Abs(pan'.y) <= MaxPan
    /\ UNCHANGED <<zoom, isDragging, isPanning, panStart, notVp>>

Mohr_handleMouseMove(x, y) ==
    /\ IF isPanning
         THEN pan' = [x |-> panStart.px + (x - panStart.mx),
                      y |-> panStart.py + (y - panStart.my)]
         ELSE pan' = pan
    /\ Abs(pan'.x) <= MaxPan
    /\ Abs(pan'.y) <= MaxPan
    /\ UNCHANGED <<zoom, isDragging, isPanning, panStart, notVp>>

\* onMouseUp and onMouseLeave
Mohr_handleMouseUp ==
    /\ isPanning' = FALSE
    /\ isDragging' = FALSE
    /\ UNCHANGED <<zoom, pan, panStart, notVp>>

\* onDoubleClick and the reset button
handleDblClick ==
    /\ zoom' = ZoomReset
    /\ pan' = [x |-> 0, y |-> 0]
    /\ UNCHANGED <<isDragging, isPanning, panStart, notVp>>

ViewportInit ==
    /\ zoom = ZoomInit
    /\ pan = [x |-> 0, y |-> 0]
    /\ isDragging = FALSE
    /\ isPanning = FALSE
    /\ panStart = [mx |-> 0, my |-> 0, px |-> 0, py |-> 0]
    /\ inp = 0
    /\ out = 0
    /\ app = 0
    /\ committed = 0
    /\ mounted = FALSE
    /\ budget = 0
    /\ sgDisplayed = 0
    /\ sgTarget = 0
    /\ sgAnimRef = 0
    /\ sgPending = {}
    /\ sgView = 0
    /\ sgSets = 0
    /\ displayThetaRef = 0
    /\ targetThetaRef = 0
    /\ boAnimRef = 0
    /\ boPending = {}
    /\ boView = 0
    /\ boSets = 0
    /\ dragStart = 0

ViewportNext ==
    \/ \E deltaY \in {-1, 1} : handleWheel(deltaY)
    \/ ZoomInClick
    \/ ZoomOutClick
    \/ \E p \in Pointers : Mohr_handleMouseDown(p[1], p[2])
    \/ \E p \in Pointers : Mohr_handleMouseMove(p[1], p[2])
    \/ Mohr_handleMouseUp
    \/ handleDblClick

SpecViewport == ViewportInit /\ [][ViewportNext]_vars

\* C1: in every reachable viewport state, after any sequence of wheel zooms,
\* button zooms, resets, double-clicks and pans, zoom lies within [0.4, 8].
C1_ZoomWithinBounds == ZoomMin <= zoom /\ zoom <= ZoomMax

\* both ends of the range are reached by repeated zooming
C1_Witness == zoom = ZoomMax /\ (pan.x # 0 \/ pan.y # 0)

(***************************************************************************)
(* Units and library functions                                             *)
(***************************************************************************)
\* stress unit: 1 MPa = MPa units (1e-7 MPa each).  Stress values entering
\* the formulas are even, so that (a + b) / 2 and (a - b) / 2 are exact.
MPa == 10000000

\* angle unit: 1 degree = Deg units
Deg == 1000

TrigScale == 10000

\* 1e-9 MPa is a hundredth of the stress unit: |x| < 1e-9 holds of a value
\* on the grid exactly when |x| < 1 unit.
Eps9 == 1

\* Math.sin of 0..90 degrees, in units of 1/TrigScale
SinTab ==
    << 0, 175, 349, 523, 698, 872, 1045, 1219, 1392, 1564, 1736, 1908, 2079,
       2250, 2419, 2588, 2756, 2924, 3090, 3256, 3420, 3584, 3746, 3907, 4067, 4226,
       4384, 4540, 4695, 4848, 5000, 5150, 5299, 5446, 5592, 5736, 5878, 6018, 6157,
       6293, 6428, 6561, 6691, 6820, 6947, 7071, 7193, 7314, 7431, 7547, 7660, 7771,
       7880, 7986, 8090, 8192, 8290, 8387, 8480, 8572, 8660, 8746, 8829, 8910, 8988,
       9063, 9135, 9205, 9272, 9336, 9397, 9455, 9511, 9563, 9613, 9659, 9703, 9744,
       9781, 9816, 9848, 9877, 9903, 9925, 9945, 9962, 9976, 9986, 9994, 9998, 10000 >>

\* sin of x units, 0 <= x <= 90 degrees, interpolated between whole degrees
SinQ(x) ==
    LET k == x \div Deg
        f == x % Deg
    IN  IF f = 0 THEN SinTab[k + 1]
        ELSE (SinTab[k + 1] * (Deg - f) + SinTab[k + 2] * f + Deg \div 2) \div Deg

\* Math.sin(a * PI / 180), a in angle units
Sin(a) ==
    LET t == a % (360 * Deg)
    IN  IF t <= 90 * Deg THEN SinQ(t)
        ELSE IF t <= 180 * Deg THEN SinQ(180 * Deg - t)
        ELSE IF t <= 270 * Deg THEN -SinQ(t - 180 * Deg)
        ELSE -SinQ(360 * Deg - t)

\* Math.cos(a * PI / 180)
Cos(a) == Sin(a + 90 * Deg)

\* the angle in [lo, hi] of the first quadrant whose tangent is ay / ax
RECURSIVE AtanBisect(_, _, _, _)
AtanBisect(ax, ay, lo, hi) ==
    IF hi - lo <= 1 THEN lo
    ELSE LET mid == (lo + hi) \div 2
         IN  IF ay * Cos(mid) - ax * Sin(mid) >= 0
               THEN AtanBisect(ax, ay, mid, hi)
               ELSE AtanBisect(ax, ay, lo, mid)

\* Math.atan2(y, x) * 180 / PI in angle units, in (-180, 180] degrees;
\* atan2(0, 0) is 0, as in JavaScript
Atan2Deg(y, x) ==
    LET k  == Max(Abs(x), Abs(y)) \div 100000 + 1
        ax == Abs(x) \div k
        ay == Abs(y) \div k
        q  == IF y = 0 THEN 0
              ELSE IF x = 0 THEN 90 * Deg
              ELSE IF Abs(x) = Abs(y) THEN 45 * Deg
              ELSE AtanBisect(ax, ay, 0, 90 * Deg)
        h  == IF x >= 0 THEN q ELSE 180 * Deg - q
    IN  IF y >= 0 THEN h ELSE -h

RECURSIVE SqrtBisect(_, _, _)
SqrtBisect(n, lo, hi) ==
    IF hi - lo <= 1 THEN lo
    ELSE LET mid == (lo + hi) \div 2
         IN  IF mid * mid <= n THEN SqrtBisect(n, mid, hi)
                               ELSE SqrtBisect(n, lo, mid)

\* Math.sqrt(a * a + b * b): exact when a or b is zero, otherwise to about
\* four digits, and never below the larger of |a| and |b|
Hypot(a, b) ==
    LET m == Max(Abs(a), Abs(b))
        k == m \div 30000 + 1
        x == Abs(a) \div k
        y == Abs(b) \div k
    IN  IF a = 0 THEN Abs(b)
        ELSE IF b = 0 THEN Abs(a)
        ELSE Max(m, k * SqrtBisect(x * x + y * y, 0, 46340))

\* the JavaScript remainder a % m: the sign of the dividend
JsRem(a, m) == Sgn(a) * (Abs(a) % m)

\* null
Null == << >>

\* v.toFixed(2) of an angle: hundredths of a degree
ToFixed2(v) == MulDiv(v, 100, Deg)

(***************************************************************************)
(* App: derived values of the sidebar                                      *)
(***************************************************************************)
\* getPrincipalAngles with 1e-9 given in the unit of its arguments
getPrincipalAnglesAt(eps, sigmaX, sigmaY, tauXY) ==
    LET diff    == sigmaX - sigmaY
        angle   == MulDiv(Atan2Deg(2 * tauXY, diff), 1, 2)
        norm(a) == JsRem(JsRem(a, 180 * Deg) + 180 * Deg, 180 * Deg)
    IN  IF Abs(diff) < eps /\ Abs(tauXY) < eps
          THEN Null
          ELSE << norm(angle), norm(angle + 90 * Deg) >>

getPrincipalAngles(sigmaX, sigmaY, tauXY) ==
    getPrincipalAnglesAt(Eps9, sigmaX, sigmaY, tauXY)

\* a plausible slip: the radius taken as the signed half difference
getMaxShearSigned(sigmaX, sigmaY, tauXY) == (sigmaX - sigmaY) \div 2

getMaxShear(sigmaX, sigmaY, tauXY) == Hypot((sigmaX - sigmaY) \div 2, tauXY)

\* App, lines 54-59
AppDerived(sigmaX, sigmaY, tauXY) ==
    LET avg    == (sigmaX + sigmaY) \div 2
        tauMax == getMaxShear(sigmaX, sigmaY, tauXY)
    IN  [avg        |-> avg,
         tauMax     |-> tauMax,
         sigma1     |-> avg + tauMax,
         sigma2     |-> avg - tauMax,
         principals |-> getPrincipalAngles(sigmaX, sigmaY, tauXY)]

\* the principal-angle cells of the sidebar: {principals && (...)}
SidebarAngles(principals) ==
    IF principals # Null
      THEN << ToFixed2(principals[1]), ToFixed2(principals[2]) >>
      ELSE << >>

(***************************************************************************)
(* MohrsCircle: derived values, scale, labels and readout                  *)
(***************************************************************************)
derived(sigmaX, sigmaY, tauXY, theta) ==
    LET avg     == (sigmaX + sigmaY) \div 2
        diff    == (sigmaX - sigmaY) \div 2
        R       == Hypot(diff, tauXY)
        c       == Cos(2 * theta)
        sn      == Sin(2 * theta)
        thetaP1 == MulDiv(Atan2Deg(tauXY, diff), 1, 2)
    IN  [avg       |-> avg,
         diff      |-> diff,
         R         |-> R,
         sx_prime  |-> avg + MulDiv(diff, c, TrigScale) + MulDiv(tauXY, sn, TrigScale),
         txy_prime |-> MulDiv(tauXY, c, TrigScale) - MulDiv(diff, sn, TrigScale),
         s1        |-> avg + R,
         s2        |-> avg - R,
         thetaP1   |-> thetaP1,
         thetaP2   |-> thetaP1 + 90 * Deg,
         thetaS1   |-> thetaP1 - 45 * Deg]

\* pixels are held in hundredths, the display scale in thousandths of a pixel
\* per MPa, and the stresses of the scale formula in thousandths of an MPa
Px == 100

ToMilli(v) == MulDiv(v, 1, MPa \div 1000)

\* Math.min(Math.max(scale, 0.5), 8),
\* scale = (Math.min(W, H) / 2 - 80) / (maxVal + R + 10)
clampedScale(sigmaX, sigmaY, tauXY, R) ==
    LET maxVal == Max(Max(Abs(sigmaX), Abs(sigmaY)), Max(Abs(tauXY), MPa))
        denom  == ToMilli(maxVal) + ToMilli(R) + 10 * 1000
        scale  == (330 * 1000 * 1000 + denom \div 2) \div denom
    IN  Min(Max(scale, 500), 8000)

\* R * clampedScale, in hundredths of a pixel; the product of two positive
\* numbers is positive
circleR(R, scale) ==
    IF R <= 0 THEN 0
    ELSE Max(1, MulDiv(ToMilli(R), scale, 10000))

\* fmt(v, 2): typeof v === 'number' ? v.toFixed(2) : the dash
fmt(v) == IF v \in Int THEN ToFixed2(v) ELSE "-"

\* the angle values the circle view puts on screen: the 2-theta-p arc label
\* (line 367), the P1 and P2 pills (lines 485, 505) and the three angle
\* cells of the readout panel (lines 626-637), which carry no condition
MohrAngleLabels(sigmaX, sigmaY, tauXY, theta, visPrincipal) ==
    LET d  == derived(sigmaX, sigmaY, tauXY, theta)
        cR == circleR(d.R, clampedScale(sigmaX, sigmaY, tauXY, d.R))
    IN  [arc2thetaP     |-> IF visPrincipal /\ cR > 8 * Px /\ Abs(d.thetaP1) > Deg \div 2
                              THEN << fmt(2 * d.thetaP1) >> ELSE << >>,
         p1Pill         |-> IF visPrincipal /\ cR > 0
                              THEN << fmt(d.thetaP1) >> ELSE << >>,
         p2Pill         |-> IF visPrincipal /\ cR > 0
                              THEN << fmt(d.thetaP2) >> ELSE << >>,
         readoutThetaP1 |-> << fmt(d.thetaP1) >>,
         readoutThetaP2 |-> << fmt(d.thetaP2) >>,
         readoutThetaS  |-> << fmt(d.thetaS1) >>]

\* the drawing area, lines 94-97, in hundredths of a pixel
W == 900

H == 820

cx == (W * Px) \div 2

cy == (H * Px) \div 2

\* toSvgX = cx + v * clampedScale and toSvgY = cy - v * clampedScale,
\* lines 104-105
toSvgX(v, scale) == cx + MulDiv(ToMilli(v), scale, 10000)

toSvgY(v, scale) == cy - MulDiv(ToMilli(v), scale, 10000)

\* the circle, point A, the live point and the principal points, lines
\* 107-133, from the memoised derived values d; diff || 0 is diff
CirclePoints(sigmaX, sigmaY, tauXY, theta, d) ==
    LET scale     == clampedScale(sigmaX, sigmaY, tauXY, d.R)
        circleCX  == toSvgX(d.avg, scale)
        circleCY  == toSvgY(0, scale)
        cR        == circleR(d.R, scale)
        angle2    == 2 * theta
        alpha_A   == Atan2Deg(0 - tauXY, d.diff)
        liveAngle == alpha_A - angle2
    IN  [scale    |-> scale,
         circleCX |-> circleCX,
         circleCY |-> circleCY,
         circleR  |-> cR,
         aX       |-> circleCX + MulDiv(cR, Cos(alpha_A), TrigScale),
         aY       |-> circleCY - MulDiv(cR, Sin(alpha_A), TrigScale),
         pointX   |-> circleCX + MulDiv(cR, Cos(liveAngle), TrigScale),
         pointY   |-> circleCY - MulDiv(cR, Sin(liveAngle), TrigScale),
         p1X      |-> circleCX + cR,
         p1Y      |-> circleCY,
         p2X      |-> circleCX - cR,
         p2Y      |-> circleCY]

\* a plausible slip: point A and the principal points turned with theta
LivePointTurning(sigmaX, sigmaY, tauXY, theta) ==
    LET lp     == CHOOSE r \in { CirclePoints(sigmaX, sigmaY, tauXY, theta, d) :
                                 d \in {derived(sigmaX, sigmaY, tauXY, theta)} } : TRUE
        angle2 == 2 * theta
    IN  [lp EXCEPT !.aX  = lp.pointX,
                   !.aY  = lp.pointY,
                   !.p1X = lp.circleCX + MulDiv(lp.circleR, Cos(angle2), TrigScale),
                   !.p1Y = lp.circleCY - MulDiv(lp.circleR, Sin(angle2), TrigScale),
                   !.p2X = lp.circleCX - MulDiv(lp.circleR, Cos(angle2), TrigScale),
                   !.p2Y = lp.circleCY + MulDiv(lp.circleR, Sin(angle2), TrigScale)]

\* what one render of the circle view draws: derived is computed once per
\* render (useMemo, line 81) and the points are taken from that value
LivePoint(sigmaX, sigmaY, tauXY, theta) ==
    CHOOSE r \in { CirclePoints(sigmaX, sigmaY, tauXY, theta, d) :
                   d \in {derived(sigmaX, sigmaY, tauXY, theta)} } : TRUE

\* the flags of the two arc paths, lines 147-148 and 156-157
largeArc(theta) == IF Abs(2 * theta) > 180 * Deg THEN 1 ELSE 0

\* a plausible slip: the sweep of the rotation arc the other way round
sweepArcFlipped(theta) == IF theta >= 0 THEN 0 ELSE 1

sweepArc(theta) == IF theta >= 0 THEN 1 ELSE 0

arcP_large(thetaP1) == IF Abs(2 * thetaP1) > 180 * Deg THEN 1 ELSE 0

arcP_sweep(thetaP1) == IF thetaP1 >= 0 THEN 0 ELSE 1

\* the path "M start A r,r 0 large,sweep end" between two points of the
\* circle of radius r about the centre, given by their angles (y up, as in
\* circleCY - r * Math.sin(angle)).  Sweep 1 runs clockwise on screen, that
\* is towards smaller angles.  Of the two circles of radius r through both
\* points the renderer takes the one on which the arc in that direction is
\* the large or the small one, as the flag says: the arc lies on the circle
\* about the centre exactly when the flag fits the way round that centre.
\* Coinciding end points draw nothing.
SvgArc(startAngle, endAngle, large, sweep) ==
    LET cw  == (startAngle - endAngle) % (360 * Deg)
        ccw == (endAngle - startAngle) % (360 * Deg)
        e   == IF sweep = 1 THEN cw ELSE ccw
        fit == e = 180 * Deg \/ ((large = 1) <=> (e > 180 * Deg))
    IN  IF e = 0 THEN [drawn |-> FALSE, centred |-> FALSE, extent |-> 0]
        ELSE [drawn   |-> TRUE,
              centred |-> fit,
              extent  |-> IF fit THEN e ELSE 360 * Deg - e]

\* the 2-theta arc (line 407) and the 2-theta-p arc (line 369)
Arcs(sigmaX, sigmaY, tauXY, theta) ==
    LET d         == derived(sigmaX, sigmaY, tauXY, theta)
        alpha_A   == Atan2Deg(0 - tauXY, d.diff)
        liveAngle == alpha_A - 2 * theta
    IN  [largeArc   |-> largeArc(theta),
         sweepArc   |-> sweepArc(theta),
         arcP_large |-> arcP_large(d.thetaP1),
         arcP_sweep |-> arcP_sweep(d.thetaP1),
         rotation   |-> SvgArc(alpha_A, liveAngle, largeArc(theta), sweepArc(theta)),
         principal  |-> SvgArc(alpha_A, 0, arcP_large(d.thetaP1),
                               arcP_sweep(d.thetaP1))]

(***************************************************************************)
(* BodyOrientation: the transformed stresses drawn on the element          *)
(***************************************************************************)
\* a plausible slip: the sign of the shear term of sigma_y_prime
BO_TransformSlip(sigmaX, sigmaY, tauXY, displayTheta) ==
    LET avg  == (sigmaX + sigmaY) \div 2
        diff == (sigmaX - sigmaY) \div 2
        c    == Cos(2 * displayTheta)
        sn   == Sin(2 * displayTheta)
    IN  [sigma_x_prime |-> avg + MulDiv(diff, c, TrigScale) + MulDiv(tauXY, sn, TrigScale),
         sigma_y_prime |-> avg - MulDiv(diff, c, TrigScale) + MulDiv(tauXY, sn, TrigScale),
         tau_prime     |-> MulDiv(tauXY, c, TrigScale) - MulDiv(diff, sn, TrigScale)]

BO_Transform(sigmaX, sigmaY, tauXY, displayTheta) ==
    LET avg  == (sigmaX + sigmaY) \div 2
        diff == (sigmaX - sigmaY) \div 2
        c    == Cos(2 * displayTheta)
        sn   == Sin(2 * displayTheta)
    IN  [sigma_x_prime |-> avg + MulDiv(diff, c, TrigScale) + MulDiv(tauXY, sn, TrigScale),
         sigma_y_prime |-> avg - MulDiv(diff, c, TrigScale) - MulDiv(tauXY, sn, TrigScale),
         tau_prime     |-> MulDiv(tauXY, c, TrigScale) - MulDiv(diff, sn, TrigScale)]

(***************************************************************************)
(* StressGraph: the curve sampler                                          *)
(***************************************************************************)
\* a plausible slip: sine and cosine exchanged in the sampler
CurvePointSwapped(sigmaX, sigmaY, tauXY, thetaMin, thetaMax, steps, i) ==
    LET theta == thetaMin + MulDiv(thetaMax - thetaMin, i, steps)
        avg   == (sigmaX + sigmaY) \div 2
        diff  == (sigmaX - sigmaY) \div 2
        c     == Sin(2 * theta)
        sn    == Cos(2 * theta)
    IN  [theta |-> theta,
         sigma |-> avg + MulDiv(diff, c, TrigScale) + MulDiv(tauXY, sn, TrigScale),
         tau   |-> MulDiv(tauXY, c, TrigScale) - MulDiv(diff, sn, TrigScale)]

\* a plausible slip: the grid divided into steps + 1 parts
CurvePointShort(sigmaX, sigmaY, tauXY, thetaMin, thetaMax, steps, i) ==
    LET theta == thetaMin + MulDiv(thetaMax - thetaMin, i, steps + 1)
        avg   == (sigmaX + sigmaY) \div 2
        diff  == (sigmaX - sigmaY) \div 2
        c     == Cos(2 * theta)
        sn    == Sin(2 * theta)
    IN  [theta |-> theta,
         sigma |-> avg + MulDiv(diff, c, TrigScale) + MulDiv(tauXY, sn, TrigScale),
         tau   |-> MulDiv(tauXY, c, TrigScale) - MulDiv(diff, sn, TrigScale)]

\* one sample of computeCurves, lines 10-17
CurvePoint(sigmaX, sigmaY, tauXY, thetaMin, thetaMax, steps, i) ==
    LET theta == thetaMin + MulDiv(thetaMax - thetaMin, i, steps)
        avg   == (sigmaX + sigmaY) \div 2
        diff  == (sigmaX - sigmaY) \div 2
        c     == Cos(2 * theta)
        sn    == Sin(2 * theta)
    IN  [theta |-> theta,
         sigma |-> avg + MulDiv(diff, c, TrigScale) + MulDiv(tauXY, sn, TrigScale),
         tau   |-> MulDiv(tauXY, c, TrigScale) - MulDiv(diff, sn, TrigScale)]

computeCurves(sigmaX, sigmaY, tauXY, thetaMin, thetaMax, steps) ==
    LET pts == [i \in 0..steps |->
                  CurvePoint(sigmaX, sigmaY, tauXY, thetaMin, thetaMax, steps, i)]
    IN  [sigmaPoints |-> [k \in 1..(steps + 1) |->
                            [theta |-> pts[k - 1].theta, value |-> pts[k - 1].sigma]],
         tauPoints   |-> [k \in 1..(steps + 1) |->
                            [theta |-> pts[k - 1].theta, value |-> pts[k - 1].tau]]]

(***************************************************************************)
(* One render of the formulas.  App hands sigmaX, sigmaY, tauXY and theta  *)
(* to its views; each view computes its values from them.  The stress      *)
(* states are the five presets and three more slider settings; the angles  *)
(* are slider settings and two values the angle smoother passes through.   *)
(***************************************************************************)
PRESETS ==
    { <<80, -40, 50>>, <<100, 0, 0>>, <<80, 40, 0>>, <<0, 0, 60>>, <<60, 60, 0>> }

StressStates == PRESETS \cup { <<-40, 80, -50>>, <<0, 0, 0>>, <<-25, -25, 0>> }

RenderThetas ==
    { 0, 15 * Deg, 19903, 30 * Deg, 45 * Deg, 60 * Deg, 90 * Deg, 135 * Deg,
      180 * Deg, -30 * Deg, -45 * Deg, -90 * Deg, 7, 179500 }

\* the sampler is called with its default of 500 steps; the model samples
\* the default range 0..180 with CurveSteps steps
CurveSteps == 3

Rendered(i) ==
    LET sx == i.sigmaX
        sy == i.sigmaY
        t  == i.tauXY
    IN  [app           |-> AppDerived(sx, sy, t),
         sidebarAngles |-> SidebarAngles(getPrincipalAngles(sx, sy, t)),
         mohr          |-> derived(sx, sy, t, i.theta),
         mohrAngles    |-> MohrAngleLabels(sx, sy, t, i.theta, i.visPrincipal),
         livePoint     |-> LivePoint(sx, sy, t, i.theta),
         arcs          |-> Arcs(sx, sy, t, i.theta),
         bo            |-> BO_Transform(sx, sy, t, i.theta),
         curves        |-> computeCurves(sx, sy, t, 0, 180 * Deg, CurveSteps)]

Props(s, th, vp) ==
    [sigmaX |-> s[1] * MPa, sigmaY |-> s[2] * MPa, tauXY |-> s[3] * MPa,
     theta |-> th, visPrincipal |-> vp]

TransformInit ==
    /\ inp = Props(<<80, -40, 50>>, 0, TRUE)
    /\ out = Rendered(inp)
    /\ zoom = ZoomInit
    /\ pan = [x |-> 0, y |-> 0]
    /\ isDragging = FALSE
    /\ isPanning = FALSE
    /\ panStart = [mx |-> 0, my |-> 0, px |-> 0, py |-> 0]
    /\ app = 0
    /\ committed = 0
    /\ mounted = FALSE
    /\ budget = 0
    /\ sgDisplayed = 0
    /\ sgTarget = 0
    /\ sgAnimRef = 0
    /\ sgPending = {}
    /\ sgView = 0
    /\ sgSets = 0
    /\ displayThetaRef = 0
    /\ targetThetaRef = 0
    /\ boAnimRef = 0
    /\ boPending = {}
    /\ boView = 0
    /\ boSets = 0
    /\ dragStart = 0

\* a preset button or a stress slider
SetStress(s) ==
    /\ inp' = Props(s, inp.theta, inp.visPrincipal)
    /\ out' = Rendered(inp')
    /\ UNCHANGED notFn

\* the rotation slider, the scrubber, a drag, or a smoothing tick
SetTheta(th) ==
    /\ inp' = [inp EXCEPT !.theta = th]
    /\ out' = Rendered(inp')
    /\ UNCHANGED notFn

\* the Principal visibility button of the circle view
TogglePrincipal ==
    /\ inp' = [inp EXCEPT !.visPrincipal = ~inp.visPrincipal]
    /\ out' = Rendered(inp')
    /\ UNCHANGED notFn

TransformNext ==
    \/ \E s \in StressStates : SetStress(s)
    \/ \E th \in RenderThetas : SetTheta(th)
    \/ TogglePrincipal

SpecTransform == TransformInit /\ [][TransformNext]_vars

Hydrostatic == inp.sigmaX = inp.sigmaY /\ inp.tauXY = 0

\* C7: for every stress state and every theta the transformed normal
\* stresses drawn on the element add up to sigmaX + sigmaY.
C7_TracePreserved ==
    out.bo.sigma_x_prime + out.bo.sigma_y_prime = inp.sigmaX + inp.sigmaY

\* a rotated, sheared state: both trigonometric terms are at work
C7_Witness ==
    /\ inp.tauXY # 0
    /\ inp.sigmaX # inp.sigmaY
    /\ inp.theta = 19903
    /\ out.bo.sigma_x_prime # inp.sigmaX
    /\ out.bo.sigma_y_prime # inp.sigmaY

\* C8: at theta = 0 the transform returns the input stress, in the curve
\* sampler (the sample at theta 0) and in the circle view's derived values.
C8_IdentityAtZero ==
    /\ out.curves.sigmaPoints[1].theta = 0
    /\ out.curves.sigmaPoints[1].value = inp.sigmaX
    /\ out.curves.tauPoints[1].value = inp.tauXY
    /\ inp.theta = 0 =>
         /\ out.mohr.sx_prime = inp.sigmaX
         /\ out.mohr.txy_prime = inp.tauXY

C8_Witness ==
    /\ inp.theta = 0
    /\ inp.tauXY < 0
    /\ inp.sigmaX # inp.sigmaY
    /\ out.mohr.sx_prime = inp.sigmaX
    /\ out.curves.sigmaPoints[2].value # inp.sigmaX

\* C9: for every stress state sigma1 = avg + R and sigma2 = avg - R satisfy
\* sigma1 >= sigma2, and tauMax = (sigma1 - sigma2) / 2 >= 0, in the sidebar
\* and in the circle view.
C9_PrincipalOrdering ==
    /\ out.app.sigma1 = out.app.avg + out.app.tauMax
    /\ out.app.sigma2 = out.app.avg - out.app.tauMax
    /\ out.app.sigma1 >= out.app.sigma2
    /\ out.app.tauMax >= 0
    /\ 2 * out.app.tauMax = out.app.sigma1 - out.app.sigma2
    /\ out.mohr.s1 >= out.mohr.s2
    /\ out.mohr.R >= 0
    /\ 2 * out.mohr.R = out.mohr.s1 - out.mohr.s2

\* a state whose shear and normal difference are both negative
C9_Witness ==
    /\ inp.tauXY < 0
    /\ inp.sigmaX < inp.sigmaY
    /\ out.app.sigma1 > out.app.sigma2
    /\ out.app.tauMax > 0

\* C10: for a hydrostatic state the principal-angle computation reports
\* degeneracy (null) and no view shows a principal or max-shear angle value.
C10_NoAngleShownWhenHydrostatic ==
    Hydrostatic =>
        /\ out.app.principals = Null
        /\ out.sidebarAngles = << >>
        /\ \A k \in DOMAIN out.mohrAngles : out.mohrAngles[k] = << >>

(***************************************************************************)
(* Frame scheduling.  requestAnimationFrame returns a handle not in use;   *)
(* only the identity of a handle matters, so the model hands out the       *)
(* smallest positive one that no scheduled callback and no ref holds.      *)
(***************************************************************************)
Ids(pending) == { cb.id : cb \in pending }

HeldIds == Ids(sgPending) \cup Ids(boPending) \cup {sgAnimRef, boAnimRef}

FreshId(used) == CHOOSE i \in 1..(Cardinality(used) + 1) : i \notin used

\* cancelAnimationFrame(id)
Cancel(pending, id) == { cb \in pending : cb.id # id }

\* the callbacks a cancelled loop leaves behind belong to no loop any more
Superseded(pending) == { [cb EXCEPT !.live = FALSE] : cb \in pending }

\* one more write of a target between two frames (two stands for "several")
Noted(sets) == [sets EXCEPT !.now = Min(sets.now + 1, 2)]

(***************************************************************************)
(* The two smoothers                                                       *)
(***************************************************************************)
\* stress values lie on a grid of two units (see MPa)
StressGrid == 2

\* lerp(a, b, t) = a + (b - a) * t with t = tNum / tDen, part_001 line 61
lerp(a, b, tNum, tDen) == a + StressGrid * MulDiv(b - a, tNum, tDen * StressGrid)

StressOf(r) == [sigmaX |-> r.sigmaX, sigmaY |-> r.sigmaY, tauXY |-> r.tauXY]

RangeOf(r) == << r.thetaMin, r.thetaMax >>

\* a plausible slip: the shear component left out of the tick
SG_SmoothNoShear(d, t) ==
    [sigmaX |-> lerp(d.sigmaX, t.sigmaX, 12, 100),
     sigmaY |-> lerp(d.sigmaY, t.sigmaY, 12, 100),
     tauXY  |-> d.tauXY]

\* render(), lines 65-70: SPEED = 0.12
SG_Smooth(d, t) ==
    [sigmaX |-> lerp(d.sigmaX, t.sigmaX, 12, 100),
     sigmaY |-> lerp(d.sigmaY, t.sigmaY, 12, 100),
     tauXY  |-> lerp(d.tauXY, t.tauXY, 12, 100)]

\* Math.abs(dt) < 0.01, in thousandths of a degree
SnapBelow == 10

\* a plausible slip: a step factor above one
BO_SmoothOvershoot(display, target) ==
    LET dt == target - display
    IN  IF Abs(dt) < SnapBelow THEN target ELSE display + MulDiv(dt, 114, 100)

\* a plausible slip: the snap left out
BO_SmoothNoSnap(display, target) == display + MulDiv(target - display, 14, 100)

\* draw(), lines 196-198
BO_Smooth(display, target) ==
    LET dt == target - display
    IN  IF Abs(dt) < SnapBelow THEN target ELSE display + MulDiv(dt, 14, 100)

(***************************************************************************)
(* The animation loops of StressGraph and BodyOrientation under App.       *)
(* A render hands new props down; React runs the effects of that render    *)
(* later, and before it renders again.  Frames may come in between.        *)
(***************************************************************************)
\* frames explored per run of the bounded specification
MaxFrames == 2

\* a plausible slip: tauXY missing from the dependencies of the target effect
SG_TargetDepsChangedNoShear ==
    \/ app.sigmaX # committed.sigmaX
    \/ app.sigmaY # committed.sigmaY

\* the dependencies [sigmaX, sigmaY, tauXY] of the target effect, line 49
SG_TargetDepsChanged == StressOf(app) # StressOf(committed)

\* the dependencies [thetaMin, thetaMax] of the render-loop effect, line 162
SG_LoopDepsChanged == RangeOf(app) # RangeOf(committed)

\* the dependency [theta] of the target effect, line 189
BO_TargetDepsChanged == app.theta # committed.theta

\* the dependency [draw] of the loop effect, line 315; draw is made anew
\* when [sigmaX, sigmaY, tauXY] change, line 308
BO_LoopDepsChanged == StressOf(app) # StressOf(committed)

\* a plausible slip: requestAnimationFrame(render) without keeping the handle
SG_AnimRefKept(id) == sgAnimRef

\* animRef.current = requestAnimationFrame(render), line 157
SG_AnimRefAfterRender(id) == id

\* a scheduled render(): its closure holds the angle range of its effect
SG_Callback(id, r, live) ==
    [id |-> id, thetaMin |-> r[1], thetaMax |-> r[2], live |-> live]

\* a scheduled draw(): its closure holds the stress of its render
BO_Callback(id, st, live) ==
    [id |-> id, sigmaX |-> st.sigmaX, sigmaY |-> st.sigmaY, tauXY |-> st.tauXY,
     live |-> live]

Spend == IF budget > 0 THEN budget - 1 ELSE budget

\* a run ends with its last frame
Exploring == budget # 0

\* the browser runs a scheduled render(), lines 63-158
SG_Frame(cb) ==
    /\ cb \in sgPending
    /\ Exploring
    /\ budget' = Spend
    /\ sgDisplayed' = SG_Smooth(sgDisplayed, sgTarget)
    /\ sgView' = computeCurves(sgDisplayed'.sigmaX, sgDisplayed'.sigmaY,
                               sgDisplayed'.tauXY, cb.thetaMin, cb.thetaMax,
                               CurveSteps)
    /\ LET id == FreshId(HeldIds)
       IN  /\ sgPending' = (sgPending \ {cb}) \cup {[cb EXCEPT !.id = id]}
           /\ sgAnimRef' = SG_AnimRefAfterRender(id)
    /\ sgSets' = [now |-> 0, atFrame |-> sgSets.now]
    /\ UNCHANGED <<app, committed, mounted, sgTarget, boVars, notLoop>>

\* a plausible slip: draw() without the requestAnimationFrame of line 307
BO_FrameOnce(cb) ==
    /\ cb \in boPending
    /\ Exploring
    /\ budget' = Spend
    /\ IF ~mounted
         THEN /\ boPending' = boPending \ {cb}
              /\ UNCHANGED <<displayThetaRef, boView, boAnimRef, boSets>>
         ELSE /\ displayThetaRef' = BO_Smooth(displayThetaRef, targetThetaRef)
              /\ boView' = BO_Transform(cb.sigmaX, cb.sigmaY, cb.tauXY,
                                        displayThetaRef')
              /\ boPending' = boPending \ {cb}
              /\ boAnimRef' = boAnimRef
              /\ boSets' = [now |-> 0, atFrame |-> boSets.now]
    /\ UNCHANGED <<app, committed, mounted, targetThetaRef, dragStart, sgVars,
                   notLoop>>

\* the browser runs a scheduled draw(), lines 191-308
BO_Frame(cb) ==
    /\ cb \in boPending
    /\ Exploring
    /\ budget' = Spend
    /\ IF ~mounted
         THEN \* if (!canvas) return
              /\ boPending' = boPending \ {cb}
              /\ UNCHANGED <<displayThetaRef, boView, boAnimRef, boSets>>
         ELSE /\ displayThetaRef' = BO_Smooth(displayThetaRef, targetThetaRef)
              /\ boView' = BO_Transform(cb.sigmaX, cb.sigmaY, cb.tauXY,
                                        displayThetaRef')
              /\ LET id == FreshId(HeldIds)
                 IN  /\ boPending' = (boPending \ {cb}) \cup {[cb EXCEPT !.id = id]}
                     /\ boAnimRef' = id
              /\ boSets' = [now |-> 0, atFrame |-> boSets.now]
    /\ UNCHANGED <<app, committed, mounted, targetThetaRef, dragStart, sgVars,
                   notLoop>>

\* a preset button, part_000 lines 45-52
applyPreset(p) ==
    /\ Exploring
    /\ mounted
    /\ app = committed
    /\ app' = [app EXCEPT !.sigmaX = p[1] * MPa, !.sigmaY = p[2] * MPa,
                          !.tauXY = p[3] * MPa, !.theta = 0]
    /\ UNCHANGED <<committed, mounted, budget, sgVars, boVars, notLoop>>

\* a stress slider, part_000 lines 41-43
update(key, v) ==
    /\ Exploring
    /\ mounted
    /\ app = committed
    /\ app' = [app EXCEPT ![key] = v * MPa]
    /\ UNCHANGED <<committed, mounted, budget, sgVars, boVars, notLoop>>

\* the rotation slider of the sidebar (line 218) or the scrubber of the element
setTheta(th) ==
    /\ Exploring
    /\ mounted
    /\ app = committed
    /\ app' = [app EXCEPT !.theta = th]
    /\ UNCHANGED <<committed, mounted, budget, sgVars, boVars, notLoop>>

\* ThetaRangeControl.applyMin / applyMax: the entry is taken when it parses
\* to a number on the right side of the other bound
\* a plausible slip: the entry taken whenever it is a number
applyMinAny(raw) ==
    /\ Exploring
    /\ mounted
    /\ app = committed
    /\ app' = IF ~raw.isNaN THEN [app EXCEPT !.thetaMin = raw.v] ELSE app
    /\ UNCHANGED <<committed, mounted, budget, sgVars, boVars, notLoop>>

applyMin(raw) ==
    /\ Exploring
    /\ mounted
    /\ app = committed
    /\ app' = IF ~raw.isNaN /\ raw.v < app.thetaMax
                THEN [app EXCEPT !.thetaMin = raw.v] ELSE app
    /\ UNCHANGED <<committed, mounted, budget, sgVars, boVars, notLoop>>

applyMax(raw) ==
    /\ Exploring
    /\ mounted
    /\ app = committed
    /\ app' = IF ~raw.isNaN /\ raw.v > app.thetaMin
                THEN [app EXCEPT !.thetaMax = raw.v] ELSE app
    /\ UNCHANGED <<committed, mounted, budget, sgVars, boVars, notLoop>>

\* the effects of the latest render run.  React first runs the cleanups of
\* the effects whose dependencies changed (part_001 lines 161, 314), then
\* their bodies (lines 189, 312-313, 48, 53-160).
FlushEffects ==
    /\ mounted
    /\ app # committed
    /\ committed' = app
    /\ IF BO_TargetDepsChanged
         THEN targetThetaRef' = app.theta /\ boSets' = Noted(boSets)
         ELSE UNCHANGED <<targetThetaRef, boSets>>
    /\ IF SG_TargetDepsChanged
         THEN sgTarget' = StressOf(app) /\ sgSets' = Noted(sgSets)
         ELSE UNCHANGED <<sgTarget, sgSets>>
    /\ LET boId == FreshId(HeldIds)
           sgId == FreshId(HeldIds \cup {boId})
       IN  /\ IF BO_LoopDepsChanged
                THEN /\ boPending' = Superseded(Cancel(boPending, boAnimRef))
                                       \cup {BO_Callback(boId, StressOf(app), TRUE)}
                     /\ boAnimRef' = boId
                ELSE UNCHANGED <<boPending, boAnimRef>>
           /\ IF SG_LoopDepsChanged
                THEN /\ sgPending' = Superseded(Cancel(sgPending, sgAnimRef))
                                       \cup {SG_Callback(sgId, RangeOf(app), TRUE)}
                     /\ sgAnimRef' = sgId
                ELSE UNCHANGED <<sgPending, sgAnimRef>>
    /\ UNCHANGED <<app, mounted, budget, sgDisplayed, sgView, displayThetaRef,
                   boView, dragStart, notLoop>>

\* App goes away: the cleanups of both loop effects, lines 161 and 314
Unmount ==
    /\ Exploring
    /\ mounted
    /\ app = committed
    /\ mounted' = FALSE
    /\ sgPending' = Superseded(Cancel(sgPending, sgAnimRef))
    /\ boPending' = Superseded(Cancel(boPending, boAnimRef))
    /\ UNCHANGED <<app, committed, budget, sgDisplayed, sgTarget, sgAnimRef,
                   sgView, sgSets, displayThetaRef, targetThetaRef, boAnimRef,
                   boView, boSets, dragStart, notLoop>>

\* the presets and slider positions the runs draw from
LoopPresets == { <<60, 60, 0>> }

SliderKeys == { "tauXY" }

SliderValues == { -30 }

LoopThetas == { 30 * Deg, -45500 }

ParseFloat ==
    { [isNaN |-> TRUE, v |-> 0], [isNaN |-> FALSE, v |-> 90 * Deg] }

\* App's first state (part_000 lines 9-13, 35-38) as the views get it
INITIAL ==
    [sigmaX |-> 80 * MPa, sigmaY |-> -40 * MPa, tauXY |-> 50 * MPa,
     theta |-> 0, thetaMin |-> 0, thetaMax |-> 180 * Deg]

\* after the first render and its effects
LoopsInit ==
    /\ app = INITIAL
    /\ committed = INITIAL
    /\ mounted = TRUE
    /\ budget = MaxFrames
    /\ sgDisplayed = StressOf(INITIAL)
    /\ sgTarget = StressOf(INITIAL)
    /\ sgAnimRef = 2
    /\ sgPending = {SG_Callback(2, RangeOf(INITIAL), TRUE)}
    /\ sgView = Null
    /\ sgSets = [now |-> 0, atFrame |-> 0]
    /\ displayThetaRef = INITIAL.theta
    /\ targetThetaRef = INITIAL.theta
    /\ boAnimRef = 1
    /\ boPending = {BO_Callback(1, StressOf(INITIAL), TRUE)}
    /\ boView = Null
    /\ boSets = [now |-> 0, atFrame |-> 0]
    /\ dragStart = Null
    /\ zoom = ZoomInit
    /\ pan = [x |-> 0, y |-> 0]
    /\ isDragging = FALSE
    /\ isPanning = FALSE
    /\ panStart = [mx |-> 0, my |-> 0, px |-> 0, py |-> 0]
    /\ inp = 0
    /\ out = 0

LoopsNext ==
    \/ \E cb \in sgPending : SG_Frame(cb)
    \/ \E cb \in boPending : BO_Frame(cb)
    \/ \E p \in LoopPresets : applyPreset(p)
    \/ \E key \in SliderKeys, v \in SliderValues : update(key, v)
    \/ \E th \in LoopThetas : setTheta(th)
    \/ \E raw \in ParseFloat : applyMin(raw)
    \/ \E raw \in ParseFloat : applyMax(raw)
    \/ FlushEffects
    \/ Unmount

SpecLoops == LoopsInit /\ [][LoopsNext]_vars

\* a step that is a frame of the curve loop, of the orientation loop
SG_Tick == \E cb \in sgPending : SG_Frame(cb)

BO_Tick == mounted /\ \E cb \in boPending : BO_Frame(cb)

\* x lies between a and b inclusive
Between(a, x, b) == Min(a, b) <= x /\ x <= Max(a, b)

\* C2: every smoothing tick yields a displayed value between the previous
\* displayed value and the target inclusive, for each stress component
\* (factor 0.12) and for the angle (factor 0.14): the distance to the target
\* never grows and the displayed value never passes the target.
C2_TickStaysBetween ==
    [][ /\ SG_Tick =>
             /\ Between(sgDisplayed.sigmaX, sgDisplayed'.sigmaX, sgTarget.sigmaX)
             /\ Between(sgDisplayed.sigmaY, sgDisplayed'.sigmaY, sgTarget.sigmaY)
             /\ Between(sgDisplayed.tauXY, sgDisplayed'.tauXY, sgTarget.tauXY)
             /\ sgTarget' = sgTarget
        /\ BO_Tick =>
             /\ Between(displayThetaRef, displayThetaRef', targetThetaRef)
             /\ Abs(targetThetaRef - displayThetaRef')
                  <= Abs(targetThetaRef - displayThetaRef)
             /\ targetThetaRef' = targetThetaRef ]_vars

\* both smoothers have ticked and are under way: strictly between where they
\* started and their targets
C2_Witness ==
    /\ sgView # Null
    /\ boView # Null
    /\ Between(INITIAL.tauXY + 1, sgDisplayed.tauXY, sgTarget.tauXY - 1)
         \/ Between(INITIAL.tauXY - 1, sgDisplayed.tauXY, sgTarget.tauXY + 1)
    /\ sgDisplayed.tauXY # INITIAL.tauXY
    /\ sgDisplayed.tauXY # sgTarget.tauXY
    /\ displayThetaRef # INITIAL.theta
    /\ displayThetaRef # targetThetaRef

\* C5: a tick moves the displayed value toward the target set last and by
\* the smoother's own step, displayed' = displayed + (latest - displayed) x
\* SPEED, however many targets were set since the tick before; targets set
\* earlier play no part in it.
C5_TickTowardLatestTarget ==
    [][ /\ SG_Tick => sgDisplayed' = SG_Smooth(sgDisplayed, StressOf(committed))
        /\ BO_Tick => displayThetaRef' = BO_Smooth(displayThetaRef, committed.theta)
      ]_vars

\* both targets were written several times between two frames, and the frame
\* after them has moved both displayed values
C5_Witness ==
    /\ sgSets.atFrame = 2
    /\ boSets.atFrame = 2
    /\ sgView # Null
    /\ boView # Null
    /\ sgDisplayed # StressOf(INITIAL)
    /\ sgDisplayed # sgTarget
    /\ displayThetaRef # INITIAL.theta
    /\ displayThetaRef # targetThetaRef

\* C6: each loop has at most one frame callback pending, every pending
\* callback belongs to the loop now in charge (a superseded one was cancelled
\* and so never runs), and none is left once the views are gone.
C6_OnePendingCallbackPerLoop ==
    /\ Cardinality(sgPending) <= 1
    /\ Cardinality(boPending) <= 1
    /\ \A cb \in sgPending \cup boPending : cb.live
    /\ ~mounted => sgPending = {} /\ boPending = {}

\* both loops were restarted and the restarted loops have drawn: the curve
\* over the new range, the element with the new stress
C6_Witness ==
    /\ sgView # Null
    /\ boView # Null
    /\ sgView.sigmaPoints[1].theta = 90 * Deg
    /\ \E cb \in boPending :
         /\ StressOf(cb) # StressOf(INITIAL)
         /\ boView = BO_Transform(cb.sigmaX, cb.sigmaY, cb.tauXY, displayThetaRef)
    /\ boView # BO_Transform(INITIAL.sigmaX, INITIAL.sigmaY, INITIAL.tauXY,
                             displayThetaRef)

(***************************************************************************)
(* The loops left to run with their targets held fixed.  The browser calls *)
(* every scheduled frame callback, so each loop's frames are weakly fair.  *)
(***************************************************************************)
\* the targets the runs head for from App's first state: a preset for the
\* stress, a rotation for the angle.  The loops share no state, so a run
\* follows one of them on its way while the other rests on its target.
SettleTargets == { [sigmaX |-> 100 * MPa, sigmaY |-> 0, tauXY |-> 0],
                   [sigmaX |-> 0, sigmaY |-> 0, tauXY |-> 60 * MPa],
                   [sigmaX |-> 80 * MPa, sigmaY |-> -40 * MPa, tauXY |-> 50 * MPa] }

SettleThetas == { 180 * Deg, -45500, 500, 0 }

SettleInit ==
    /\ sgTarget \in SettleTargets
    /\ targetThetaRef \in SettleThetas
    /\ (sgTarget = StressOf(INITIAL)) # (targetThetaRef = INITIAL.theta)
    /\ app = [sigmaX |-> sgTarget.sigmaX, sigmaY |-> sgTarget.sigmaY,
              tauXY |-> sgTarget.tauXY, theta |-> targetThetaRef,
              thetaMin |-> INITIAL.thetaMin, thetaMax |-> INITIAL.thetaMax]
    /\ committed = app
    /\ mounted = TRUE
    /\ budget = -1
    /\ sgDisplayed = StressOf(INITIAL)
    /\ sgAnimRef = 2
    /\ sgPending = {SG_Callback(2, RangeOf(INITIAL), TRUE)}
    /\ sgView = computeCurves(INITIAL.sigmaX, INITIAL.sigmaY, INITIAL.tauXY,
                              INITIAL.thetaMin, INITIAL.thetaMax, CurveSteps)
    /\ sgSets = [now |-> 0, atFrame |-> 0]
    /\ displayThetaRef = INITIAL.theta
    /\ boAnimRef = 3
    /\ boPending = {BO_Callback(3, sgTarget, TRUE)}
    /\ boView = BO_Transform(INITIAL.sigmaX, INITIAL.sigmaY, INITIAL.tauXY,
                             INITIAL.theta)
    /\ boSets = [now |-> 0, atFrame |-> 0]
    /\ dragStart = Null
    /\ zoom = ZoomInit
    /\ pan = [x |-> 0, y |-> 0]
    /\ isDragging = FALSE
    /\ isPanning = FALSE
    /\ panStart = [mx |-> 0, my |-> 0, px |-> 0, py |-> 0]
    /\ inp = 0
    /\ out = 0

SettleNext ==
    \/ \E cb \in sgPending : SG_Frame(cb)
    \/ \E cb \in boPending : BO_Frame(cb)

SpecSettle ==
    /\ SettleInit
    /\ [][SettleNext]_vars
    /\ WF_vars(\E cb \in sgPending : SG_Frame(cb))
    /\ WF_vars(\E cb \in boPending : BO_Frame(cb))

\* C3: with its target held fixed the displayed angle equals the target
\* after finitely many ticks and from then on; the tick that finds them less
\* than 0.01 degrees apart makes them equal, and a tick that finds them equal
\* leaves them equal.
C3_AngleReachesTarget ==
    /\ <>[](displayThetaRef = targetThetaRef)
    /\ [][BO_Tick /\ Abs(targetThetaRef - displayThetaRef) < SnapBelow
            => displayThetaRef' = targetThetaRef']_vars

\* the angle has travelled from 0 to 180 degrees and sits on the target
C3_Witness ==
    /\ displayThetaRef = targetThetaRef
    /\ targetThetaRef = 180 * Deg
    /\ boView = BO_Transform(app.sigmaX, app.sigmaY, app.tauXY, targetThetaRef)

\* 1e-6 MPa
Tol6 == MPa \div 1000000

SG_Within ==
    /\ Abs(sgTarget.sigmaX - sgDisplayed.sigmaX) <= Tol6
    /\ Abs(sgTarget.sigmaY - sgDisplayed.sigmaY) <= Tol6
    /\ Abs(sgTarget.tauXY - sgDisplayed.tauXY) <= Tol6

\* C4: with a fixed target, repeated ticks bring every displayed stress
\* component within 1e-6 of its target, and a tick that finds them within
\* that bound leaves them within it.
C4_StressSettles ==
    /\ <>SG_Within
    /\ [][SG_Within => SG_Within']_vars

\* the displayed stress has travelled from App's first state to a preset
C4_Witness ==
    /\ SG_Within
    /\ sgTarget.tauXY = 60 * MPa
    /\ sgView = computeCurves(sgDisplayed.sigmaX, sgDisplayed.sigmaY,
                              sgDisplayed.tauXY, 0, 180 * Deg, CurveSteps)

(***************************************************************************)
(* The stress sliders with their editable bounds, close to zero.           *)
(* A bound typed into a slider's min or max field is any number, and the   *)
(* slider's value is clamped to it, so values off the sliders' grid of     *)
(* whole MPa are reachable.  Here stress is in units of 1e-10 MPa and the  *)
(* three sliders have been narrowed to [-2e-9, 2e-9]: from App's first     *)
(* state by typing 2e-9 as max and -2e-9 as min of sigmaX and of tauXY,    *)
(* and -2e-9 as min and 2e-9 as max of sigmaY.                             *)
(***************************************************************************)
\* 1e-9 MPa in units of 1e-10 MPa
Eps9Fine == 10

\* clampedScale for stresses far below 1 MPa: maxVal is 1 and
\* scale = 330 / (1 + R + 10) = 30, which the clamp takes down to 8
clampedScaleFine == 8

\* circleR = R * clampedScale, in units of 1e-10 pixel
circleRFine(R) == R * clampedScaleFine

\* parseFloat of what is typed into a bound field
FineEntries ==
    { [isNaN |-> TRUE, v |-> 0], [isNaN |-> FALSE, v |-> 0],
      [isNaN |-> FALSE, v |-> 4], [isNaN |-> FALSE, v |-> 20] }

StressKeys == { "sigmaX", "sigmaY", "tauXY" }

\* what App and the circle view make of the slider values
FineRendered(params) ==
    LET sx == params.sigmaX.value
        sy == params.sigmaY.value
        t  == params.tauXY.value
        d  == derived(sx, sy, t, 0)
    IN  [principals |-> getPrincipalAnglesAt(Eps9Fine, sx, sy, t),
         R          |-> d.R,
         circleR    |-> circleRFine(d.R),
         \* show: vis.principal && circleR > 0, with vis.principal as it starts
         p1Shown    |-> circleRFine(d.R) > 0,
         p2Shown    |-> circleRFine(d.R) > 0,
         \* circleR > 0 ? the circle : the dot
         circleDrawn |-> circleRFine(d.R) > 0]

\* ParameterSlider.handleRangeChange(field, raw) and App.update(key, patch)
handleRangeChange(key, field, raw) ==
    LET sl == inp[key]
    IN  /\ inp' = IF raw.isNaN THEN inp
                  ELSE IF field = "min" /\ raw.v < sl.max
                    THEN [inp EXCEPT ![key] = [min |-> raw.v, max |-> sl.max,
                                               value |-> Max(sl.value, raw.v)]]
                  ELSE IF field = "max" /\ raw.v > sl.min
                    THEN [inp EXCEPT ![key] = [min |-> sl.min, max |-> raw.v,
                                               value |-> Min(sl.value, raw.v)]]
                  ELSE inp
        /\ out' = FineRendered(inp')
        /\ UNCHANGED notFn

\* the slider itself, onChange: with a range narrower than its step of 1 MPa
\* the only position of the slider is its min
SliderChange(key) ==
    /\ inp' = [inp EXCEPT ![key].value = inp[key].min]
    /\ out' = FineRendered(inp')
    /\ UNCHANGED notFn

SlidersInit ==
    /\ inp = [sigmaX |-> [value |-> 20, min |-> -20, max |-> 20],
              sigmaY |-> [value |-> -20, min |-> -20, max |-> 20],
              tauXY  |-> [value |-> 20, min |-> -20, max |-> 20]]
    /\ out = FineRendered(inp)
    /\ zoom = ZoomInit
    /\ pan = [x |-> 0, y |-> 0]
    /\ isDragging = FALSE
    /\ isPanning = FALSE
    /\ panStart = [mx |-> 0, my |-> 0, px |-> 0, py |-> 0]
    /\ app = 0
    /\ committed = 0
    /\ mounted = FALSE
    /\ budget = 0
    /\ sgDisplayed = 0
    /\ sgTarget = 0
    /\ sgAnimRef = 0
    /\ sgPending = {}
    /\ sgView = 0
    /\ sgSets = 0
    /\ displayThetaRef = 0
    /\ targetThetaRef = 0
    /\ boAnimRef = 0
    /\ boPending = {}
    /\ boView = 0
    /\ boSets = 0
    /\ dragStart = 0

SlidersNext ==
    \/ \E key \in StressKeys, field \in {"min", "max"}, raw \in FineEntries :
         handleRangeChange(key, field, raw)
    \/ \E key \in StressKeys : SliderChange(key)

SpecSliders == SlidersInit /\ [][SlidersNext]_vars

\* C11: the circle view draws the principal markers (and the circle rather
\* than the dot) exactly when getPrincipalAngles returns a non-null result.
C11_DegeneracyAgreed ==
    /\ out.p1Shown <=> out.principals # Null
    /\ out.p2Shown <=> out.principals # Null
    /\ out.circleDrawn <=> out.principals # Null

(***************************************************************************)
(* StressGraph: the curve sampler and the principal markers of one render. *)
(* The sampler is linear in the stress, so this part feeds it stress in    *)
(* tenths of a MPa (DeciMPa), which keeps the products of the marker       *)
(* interpolation inside the integers of the model checker.  On that grid   *)
(* two tau samples differ by more than 1e-9 exactly when they differ.      *)
(***************************************************************************)
DeciMPa == 10

\* a * n / d for a divisor of either sign
Ratio(a, n, d) == MulDiv(a * Sgn(d), n, Abs(d))

\* a plausible slip: only strictly opposite signs count as a crossing
MarkerAtStrict(curves, i) ==
    LET a  == curves.tauPoints[i]
        b  == curves.tauPoints[i + 1]
        s0 == curves.sigmaPoints[i]
        s1 == curves.sigmaPoints[i + 1]
        tCross == a.theta + Ratio(0 - a.value, b.theta - a.theta, b.value - a.value)
        sVal   == s0.value + Ratio(tCross - s0.theta, s1.value - s0.value,
                                   s1.theta - s0.theta)
    IN  IF Sgn(a.value) * Sgn(b.value) < 0 /\ Abs(a.value - b.value) > 0
          THEN << [pair |-> i, tCross |-> tCross, sVal |-> sVal] >>
          ELSE << >>

\* a plausible slip: the test on the difference of the two samples left out
MarkerAtNoGap(curves, i) ==
    LET a  == curves.tauPoints[i]
        b  == curves.tauPoints[i + 1]
        s0 == curves.sigmaPoints[i]
        s1 == curves.sigmaPoints[i + 1]
        tCross == IF a.value = b.value THEN a.theta
                  ELSE a.theta + Ratio(0 - a.value, b.theta - a.theta,
                                       b.value - a.value)
        sVal   == IF s1.theta = s0.theta THEN s0.value
                  ELSE s0.value + Ratio(tCross - s0.theta, s1.value - s0.value,
                                        s1.theta - s0.theta)
    IN  IF Sgn(a.value) * Sgn(b.value) <= 0
          THEN << [pair |-> i, tCross |-> tCross, sVal |-> sVal] >>
          ELSE << >>

\* one pass of the marker loop, part_001 lines 129-138, for the samples i and
\* i + 1 (counted from 1): the markers it appends.  a.value * b.value <= 0 is
\* decided on the signs; pair records which pass appended the marker.
MarkerAt(curves, i) ==
    LET a  == curves.tauPoints[i]
        b  == curves.tauPoints[i + 1]
        s0 == curves.sigmaPoints[i]
        s1 == curves.sigmaPoints[i + 1]
        tCross == a.theta + Ratio(0 - a.value, b.theta - a.theta, b.value - a.value)
        sVal   == s0.value + Ratio(tCross - s0.theta, s1.value - s0.value,
                                   s1.theta - s0.theta)
    IN  IF Sgn(a.value) * Sgn(b.value) <= 0 /\ Abs(a.value - b.value) > 0
          THEN << [pair |-> i, tCross |-> tCross, sVal |-> sVal] >>
          ELSE << >>

RECURSIVE MarkersFrom(_, _)
MarkersFrom(curves, i) ==
    IF i > Len(curves.tauPoints) - 1 THEN << >>
    ELSE MarkerAt(curves, i) \o MarkersFrom(curves, i + 1)

\* the marker loop, part_001 lines 127-139
PrincipalMarkers(curves) == MarkersFrom(curves, 1)

MaxSteps == 4

SamplerStates == StressStates

\* ranges in degrees: the default, ranges the range control can be set to,
\* and two that a direct caller of the sampler can pass
SamplerRanges ==
    { <<0, 180>>, <<-90, 90>>, <<0, 360>>, <<10, 40>>, <<90, 90>>, <<180, 0>> }

\* the y axis holds hundredths of the stress unit, so that 12% of a range is
\* exact
AxisScale == 100

SetMin(S) == CHOOSE v \in S : \A w \in S : v <= w

SetMax(S) == CHOOSE v \in S : \A w \in S : v >= w

\* a plausible slip: the range used as it is
AxisRangeRaw(rawMin, rawMax) == rawMax - rawMin

\* rawMax - rawMin || 1, the 1 being 1 MPa
AxisRange(rawMin, rawMax) ==
    IF rawMax - rawMin = 0 THEN DeciMPa ELSE rawMax - rawMin

\* yMin and yMax of one render, part_001 lines 81-87
AxisOf(curves) ==
    LET allValues == { curves.sigmaPoints[k].value : k \in DOMAIN curves.sigmaPoints }
                       \cup { curves.tauPoints[k].value : k \in DOMAIN curves.tauPoints }
        rawMin == SetMin(allValues)
        rawMax == SetMax(allValues)
        range  == AxisRange(rawMin, rawMax)
        pad    == range * 12
    IN  [yMin |-> rawMin * AxisScale - pad, yMax |-> rawMax * AxisScale + pad]

Sampled(i) ==
    LET curves == computeCurves(i.sigmaX, i.sigmaY, i.tauXY,
                                i.thetaMin, i.thetaMax, i.steps)
    IN  [curves |-> curves, markers |-> PrincipalMarkers(curves),
         axis |-> AxisOf(curves)]

SamplerInit ==
    /\ inp = [sigmaX |-> 80 * DeciMPa, sigmaY |-> -40 * DeciMPa,
              tauXY |-> 50 * DeciMPa, thetaMin |-> 0, thetaMax |-> 180 * Deg,
              steps |-> MaxSteps]
    /\ out = Sampled(inp)
    /\ zoom = ZoomInit
    /\ pan = [x |-> 0, y |-> 0]
    /\ isDragging = FALSE
    /\ isPanning = FALSE
    /\ panStart = [mx |-> 0, my |-> 0, px |-> 0, py |-> 0]
    /\ app = 0
    /\ committed = 0
    /\ mounted = FALSE
    /\ budget = 0
    /\ sgDisplayed = 0
    /\ sgTarget = 0
    /\ sgAnimRef = 0
    /\ sgPending = {}
    /\ sgView = 0
    /\ sgSets = 0
    /\ displayThetaRef = 0
    /\ targetThetaRef = 0
    /\ boAnimRef = 0
    /\ boPending = {}
    /\ boView = 0
    /\ boSets = 0
    /\ dragStart = 0

\* a render with another displayed stress
SampleStress(s) ==
    /\ inp' = [inp EXCEPT !.sigmaX = s[1] * DeciMPa, !.sigmaY = s[2] * DeciMPa,
                          !.tauXY = s[3] * DeciMPa]
    /\ out' = Sampled(inp')
    /\ UNCHANGED notFn

\* a render with another angle range
SampleRange(r) ==
    /\ inp' = [inp EXCEPT !.thetaMin = r[1] * Deg, !.thetaMax = r[2] * Deg]
    /\ out' = Sampled(inp')
    /\ UNCHANGED notFn

\* a call with another number of steps
SampleSteps(n) ==
    /\ inp' = [inp EXCEPT !.steps = n]
    /\ out' = Sampled(inp')
    /\ UNCHANGED notFn

SamplerNext ==
    \/ \E s \in SamplerStates : SampleStress(s)
    \/ \E r \in SamplerRanges : SampleRange(r)
    \/ \E n \in 1..MaxSteps : SampleSteps(n)

SpecSampler == SamplerInit /\ [][SamplerNext]_vars

ValidRange == inp.thetaMin < inp.thetaMax

\* C12: for thetaMin < thetaMax and N steps the sampler returns N + 1 sigma
\* samples and N + 1 tau samples on one shared grid of angles; sample i is
\* at thetaMin + (i/N)(thetaMax - thetaMin) to within the resolution of the
\* angles, the first at thetaMin, the last at thetaMax, strictly ascending.
C12_SharedAscendingGrid ==
    ValidRange =>
      LET N  == inp.steps
          sp == out.curves.sigmaPoints
          tp == out.curves.tauPoints
      IN  /\ Len(sp) = N + 1
          /\ Len(tp) = N + 1
          /\ \A k \in 1..(N + 1) :
               /\ sp[k].theta = tp[k].theta
               /\ Abs(N * (sp[k].theta - inp.thetaMin)
                        - (k - 1) * (inp.thetaMax - inp.thetaMin)) < N
          /\ sp[1].theta = inp.thetaMin
          /\ sp[N + 1].theta = inp.thetaMax
          /\ \A k \in 1..N : sp[k].theta < sp[k + 1].theta

\* a range that the step count does not divide evenly, sampled in three steps
C12_Witness ==
    /\ inp.thetaMin = 10 * Deg
    /\ inp.thetaMax = 40 * Deg
    /\ inp.steps = 3
    /\ inp.tauXY # 0
    /\ Len(out.curves.tauPoints) = 4

\* C13: called with thetaMin >= thetaMax the sampler returns no sample
\* sequence but an explicit invalid-range outcome.
C13_InvalidRangeRejected ==
    inp.thetaMin >= inp.thetaMax => out.curves = Null

MarkersOfPair(i) == { k \in 1..Len(out.markers) : out.markers[k].pair = i }

Crossing(a, b) == Sgn(a) * Sgn(b) <= 0 /\ Abs(a - b) > 0

\* C14: for thetaMin < thetaMax, each adjacent pair of tau samples a, b with
\* a*b <= 0 and |a - b| > 1e-9 gets exactly one marker; it lies at the
\* fraction -a/(b - a) of the way from theta_i to theta_i+1, inside that
\* interval, and its sigma value is the sigma samples interpolated at the
\* same fraction (each to within the resolution); every other pair gets no
\* marker.
C14_MarkerInterpolated ==
    ValidRange =>
      \A i \in 1..inp.steps :
        LET a  == out.curves.tauPoints[i]
            b  == out.curves.tauPoints[i + 1]
            s0 == out.curves.sigmaPoints[i]
            s1 == out.curves.sigmaPoints[i + 1]
        IN  IF Crossing(a.value, b.value)
              THEN /\ Cardinality(MarkersOfPair(i)) = 1
                   /\ \A k \in MarkersOfPair(i) :
                        LET mk == out.markers[k]
                        IN  /\ a.theta <= mk.tCross
                            /\ mk.tCross <= b.theta
                            /\ Abs((mk.tCross - a.theta) * (b.value - a.value)
                                     + a.value * (b.theta - a.theta))
                                 <= Abs(b.value - a.value)
                            /\ Abs((mk.sVal - s0.value) * (b.value - a.value)
                                     + a.value * (s1.value - s0.value))
                                 <= Abs(b.value - a.value)
              ELSE MarkersOfPair(i) = {}

\* a pair whose first tau sample is exactly zero, and a pair crossed in its
\* interior, both marked
C14_Witness ==
    /\ ValidRange
    /\ inp.steps = 3
    /\ Len(out.markers) >= 2
    /\ \E k \in 1..Len(out.markers) :
         out.curves.tauPoints[out.markers[k].pair].value = 0
    /\ \E k \in 1..Len(out.markers) :
         LET i == out.markers[k].pair
         IN  /\ out.curves.tauPoints[i].value # 0
             /\ out.curves.tauPoints[i + 1].value # 0
             /\ out.markers[k].tCross > out.curves.tauPoints[i].theta
             /\ out.markers[k].tCross < out.curves.tauPoints[i + 1].theta

\* C15: when no two adjacent tau samples differ in sign (all positive, all
\* negative, or the flat zero sequence of a hydrostatic state) the marker
\* loop yields the empty list of markers.
C15_NoSignChangeNoMarker ==
    (\A i \in 1..inp.steps :
        Sgn(out.curves.tauPoints[i].value)
          = Sgn(out.curves.tauPoints[i + 1].value))
      => out.markers = << >>

\* the flat zero sequence of a hydrostatic state, over a valid range
C15_Witness ==
    /\ ValidRange
    /\ inp.steps >= 2
    /\ inp.sigmaX = inp.sigmaY
    /\ inp.sigmaX # 0
    /\ inp.tauXY = 0
    /\ \A k \in 1..(inp.steps + 1) : out.curves.tauPoints[k].value = 0
    /\ out.markers = << >>

(***************************************************************************)
(* The live point of the circle against the values of its label            *)
(***************************************************************************)
\* C16: for every stress state and theta the live point is drawn at
\* (toSvgX(sx_prime), cy + txy_prime * scale), the position of the pair
\* (sx_prime, txy_prime) of its label under the shear-down convention of
\* point A, to within a pixel.
C16_LivePointMatchesLabel ==
    /\ Abs(out.livePoint.pointX - toSvgX(out.mohr.sx_prime, out.livePoint.scale)) <= Px
    /\ Abs(out.livePoint.pointY
             - (cy + MulDiv(ToMilli(out.mohr.txy_prime), out.livePoint.scale, 10000))) <= Px

(***************************************************************************)
(* Viewport: reset and pan gestures                                        *)
(***************************************************************************)
\* C17: every reset (the reset button or a double-click), from any
\* reachable viewport state, leaves zoom at the value the viewport is
\* initialised with (1.6) and pan at (0, 0).
C17_ResetRestoresDefault ==
    [][handleDblClick => (zoom' = ZoomInit /\ pan' = [x |-> 0, y |-> 0])]_vars

\* C20: a mouse-down at (mx, my) with pan (px, py) fixes the start of the
\* drag and leaves pan alone; every move at (x, y) during the drag sets pan
\* to (px + x - mx, py + y - my); a release leaves pan alone; a move with no
\* drag in progress leaves pan alone; no other step touches the start of a
\* drag, so the next drag starts from the pan fixed at release.
C20_PanFollowsDrag ==
    /\ [][\A p \in Pointers : Mohr_handleMouseDown(p[1], p[2]) =>
            /\ pan' = pan
            /\ isPanning'
            /\ panStart' = [mx |-> p[1], my |-> p[2], px |-> pan.x, py |-> pan.y]]_vars
    /\ [][\A p \in Pointers : Mohr_handleMouseMove(p[1], p[2]) =>
            IF isPanning
              THEN pan' = [x |-> panStart.px + p[1] - panStart.mx,
                           y |-> panStart.py + p[2] - panStart.my]
              ELSE pan' = pan]_vars
    /\ [][Mohr_handleMouseUp => (pan' = pan /\ ~isPanning')]_vars
    /\ [][(panStart' # panStart) =>
            \E p \in Pointers : Mohr_handleMouseDown(p[1], p[2])]_vars

\* a second drag, begun from the pan the first drag ended at, has moved on
C20_Witness ==
    /\ isPanning
    /\ panStart.px = 30
    /\ panStart.py = 20
    /\ panStart.mx = 0
    /\ pan = [x |-> 60, y |-> 40]

(***************************************************************************)
(* MohrsCircle: the interactive point groups and their paint order.        *)
(* inp holds the stress, the visibility toggles and hoveredPt; out is the  *)
(* list of keys in the order the groups are rendered.  The null of         *)
(* hoveredPt is NoKey, a key no marker has.                                *)
(***************************************************************************)
NoKey == "null"

\* the declared order of the point groups, lines 446-580
MarkerKeys ==
    << "tauMax", "tauMin", "p1", "p2", "pointA", "conjPoint", "livePoint" >>

\* the show field of each group
MarkerShow(key, vis, cR) ==
    CASE key \in {"tauMax", "tauMin"}       -> vis.shear /\ cR > 0
      [] key \in {"p1", "p2"}               -> vis.principal /\ cR > 0
      [] key = "pointA"                     -> TRUE
      [] key \in {"conjPoint", "livePoint"} -> vis.rotation

\* a plausible slip: the hovered group sorted to the front
HoverCompareFirst(a, b, hoveredPt) ==
    IF a = hoveredPt THEN -1 ELSE IF b = hoveredPt THEN 1 ELSE 0

\* the comparator of line 585
HoverCompare(a, b, hoveredPt) ==
    IF a = hoveredPt THEN 1 ELSE IF b = hoveredPt THEN -1 ELSE 0

\* Array.prototype.sort: a stable sort, computed by insertion
RECURSIVE SortInsert(_, _, _)
SortInsert(s, x, hoveredPt) ==
    IF s = << >> THEN << x >>
    ELSE IF HoverCompare(s[Len(s)], x, hoveredPt) > 0
           THEN Append(SortInsert(SubSeq(s, 1, Len(s) - 1), x, hoveredPt), s[Len(s)])
           ELSE Append(s, x)

RECURSIVE ArraySort(_, _)
ArraySort(s, hoveredPt) ==
    IF s = << >> THEN << >>
    ELSE SortInsert(ArraySort(SubSeq(s, 1, Len(s) - 1), hoveredPt), s[Len(s)],
                    hoveredPt)

\* the groups that pass .filter(p => p.show), in declared order
MarkersShown(vis, cR) ==
    LET Shown(key) == MarkerShow(key, vis, cR)
    IN  SelectSeq(MarkerKeys, Shown)

\* .filter(...).sort(...).map(...), lines 584-593
RenderOrder(i) ==
    LET d  == derived(i.sigmaX, i.sigmaY, i.tauXY, 0)
        cR == circleR(d.R, clampedScale(i.sigmaX, i.sigmaY, i.tauXY, d.R))
    IN  ArraySort(MarkersShown(i.vis, cR), i.hoveredPt)

MarkerStates == { <<80, -40, 50>>, <<60, 60, 0>>, <<0, 0, 60>> }

VisKeys == { "principal", "shear", "rotation" }

MarkersInit ==
    /\ inp = [sigmaX |-> 80 * MPa, sigmaY |-> -40 * MPa, tauXY |-> 50 * MPa,
              vis |-> [principal |-> TRUE, shear |-> TRUE, rotation |-> TRUE],
              hoveredPt |-> NoKey]
    /\ out = RenderOrder(inp)
    /\ zoom = ZoomInit
    /\ pan = [x |-> 0, y |-> 0]
    /\ isDragging = FALSE
    /\ isPanning = FALSE
    /\ panStart = [mx |-> 0, my |-> 0, px |-> 0, py |-> 0]
    /\ app = 0
    /\ committed = 0
    /\ mounted = FALSE
    /\ budget = 0
    /\ sgDisplayed = 0
    /\ sgTarget = 0
    /\ sgAnimRef = 0
    /\ sgPending = {}
    /\ sgView = 0
    /\ sgSets = 0
    /\ displayThetaRef = 0
    /\ targetThetaRef = 0
    /\ boAnimRef = 0
    /\ boPending = {}
    /\ boView = 0
    /\ boSets = 0
    /\ dragStart = 0

\* a toolbar button: setVis(v => ({ ...v, [key]: !v[key] }))
toggleVis(key) ==
    /\ inp' = [inp EXCEPT !.vis[key] = ~inp.vis[key]]
    /\ out' = RenderOrder(inp')
    /\ UNCHANGED notFn

\* the pointer enters a rendered group
onMouseEnter(key) ==
    /\ \E k \in 1..Len(out) : out[k] = key
    /\ inp' = [inp EXCEPT !.hoveredPt = key]
    /\ out' = RenderOrder(inp')
    /\ UNCHANGED notFn

onMouseLeave ==
    /\ inp' = [inp EXCEPT !.hoveredPt = NoKey]
    /\ out' = RenderOrder(inp')
    /\ UNCHANGED notFn

\* new stress props
MarkerStress(s) ==
    /\ inp' = [inp EXCEPT !.sigmaX = s[1] * MPa, !.sigmaY = s[2] * MPa,
                          !.tauXY = s[3] * MPa]
    /\ out' = RenderOrder(inp')
    /\ UNCHANGED notFn

MarkersNext ==
    \/ \E key \in VisKeys : toggleVis(key)
    \/ \E k \in 1..Len(MarkerKeys) : onMouseEnter(MarkerKeys[k])
    \/ onMouseLeave
    \/ \E s \in MarkerStates : MarkerStress(s)

SpecMarkers == MarkersInit /\ [][MarkersNext]_vars

\* C19: the render order is the visible markers in declared order with the
\* hovered marker, when visible, moved to the end; with no hovered key it is
\* the declared order.
C19_HoveredPaintedLast ==
    LET d       == derived(inp.sigmaX, inp.sigmaY, inp.tauXY, 0)
        round   == d.R > 0
        Visible(key) ==
            \/ key = "pointA"
            \/ key \in {"tauMax", "tauMin"} /\ inp.vis.shear /\ round
            \/ key \in {"p1", "p2"} /\ inp.vis.principal /\ round
            \/ key \in {"conjPoint", "livePoint"} /\ inp.vis.rotation
        Others(key)  == Visible(key) /\ key # inp.hoveredPt
        Hovered(key) == Visible(key) /\ key = inp.hoveredPt
    IN  /\ out = SelectSeq(MarkerKeys, Others) \o SelectSeq(MarkerKeys, Hovered)
        /\ inp.hoveredPt = NoKey => out = SelectSeq(MarkerKeys, Visible)

\* a hovered marker from the middle of the list painted after later ones
C19_Witness ==
    /\ inp.hoveredPt = "p1"
    /\ Len(out) = 7
    /\ out[7] = "p1"
    /\ out[3] = "p2"
    /\ out[6] = "livePoint"

(***************************************************************************)
(* BodyOrientation: drag to rotate, part_001 lines 317-332.  The handlers  *)
(* of the canvas run between renders, as the other inputs do; the theta    *)
(* they read and set is App's theta state, which the target effect copies  *)
(* into targetThetaRef and the frames smooth displayThetaRef towards.      *)
(***************************************************************************)
\* clientX of the pointer events
DragPointers == { 0, 40, 400 }

\* Math.max(0, Math.min(180, t0 + dx * 0.5))
DragTheta(t0, dx) == Max(0, Min(180 * Deg, t0 + dx * (Deg \div 2)))

\* a position of the rotation slider of the sidebar, outside the range of the
\* drag
DragThetas == { -45500 }

BO_handleMouseDown(x) ==
    /\ Exploring
    /\ mounted
    /\ app = committed
    /\ dragStart' = [x |-> x, theta |-> app.theta]
    /\ UNCHANGED <<appVars, sgVars, displayThetaRef, targetThetaRef, boAnimRef,
                   boPending, boView, boSets, notLoop>>

\* a plausible slip: the new angle passed on without the clamp
BO_handleMouseMoveNoClamp(x) ==
    /\ Exploring
    /\ mounted
    /\ app = committed
    /\ IF dragStart = Null
         THEN app' = app
         ELSE app' = [app EXCEPT !.theta = dragStart.theta
                                             + (x - dragStart.x) * (Deg \div 2)]
    /\ UNCHANGED <<committed, mounted, budget, sgVars, boVars, notLoop>>

BO_handleMouseMove(x) ==
    /\ Exploring
    /\ mounted
    /\ app = committed
    /\ IF dragStart = Null
         THEN app' = app
         ELSE app' = [app EXCEPT !.theta = DragTheta(dragStart.theta,
                                                     x - dragStart.x)]
    /\ UNCHANGED <<committed, mounted, budget, sgVars, boVars, notLoop>>

\* onMouseUp and onMouseLeave
BO_handleMouseUp ==
    /\ Exploring
    /\ mounted
    /\ app = committed
    /\ dragStart' = Null
    /\ UNCHANGED <<appVars, sgVars, displayThetaRef, targetThetaRef, boAnimRef,
                   boPending, boView, boSets, notLoop>>

DragNext ==
    \/ \E x \in DragPointers : BO_handleMouseDown(x)
    \/ \E x \in DragPointers : BO_handleMouseMove(x)
    \/ BO_handleMouseUp
    \/ \E th \in DragThetas : setTheta(th)
    \/ FlushEffects
    \/ \E cb \in boPending : BO_Frame(cb)

SpecDrag == LoopsInit /\ [][DragNext]_vars

\* C18: a mouse-down at x0 records x0 and the current theta t0; during the
\* drag every move at x sets theta to clamp(t0 + 0.5 (x - x0), 0, 180) and
\* nothing else; a move with no drag in progress leaves theta unchanged; the
\* start of a drag is touched by mouse-down and mouse-up (or leave) alone;
\* the gesture never writes the displayed angle, which changes only in a
\* smoothing tick.
C18_DragSetsThetaTarget ==
    /\ [][\A x \in DragPointers : BO_handleMouseDown(x) =>
            /\ dragStart' = [x |-> x, theta |-> app.theta]
            /\ app' = app]_vars
    /\ [][\A x \in DragPointers : BO_handleMouseMove(x) =>
            /\ dragStart # Null =>
                 LET t == dragStart.theta + (x - dragStart.x) * 500
                 IN  /\ t < 0 => app'.theta = 0
                     /\ t > 180000 => app'.theta = 180000
                     /\ (0 <= t /\ t <= 180000) => app'.theta = t
            /\ dragStart = Null => app'.theta = app.theta
            /\ StressOf(app') = StressOf(app)
            /\ RangeOf(app') = RangeOf(app)]_vars
    /\ [][dragStart' # dragStart =>
            \/ \E x \in DragPointers : BO_handleMouseDown(x)
            \/ BO_handleMouseUp]_vars
    /\ [][displayThetaRef' # displayThetaRef =>
            \E cb \in boPending : BO_Frame(cb)]_vars
    /\ [][(\/ \E x \in DragPointers : BO_handleMouseDown(x)
           \/ \E x \in DragPointers : BO_handleMouseMove(x)
           \/ BO_handleMouseUp)
            => /\ displayThetaRef' = displayThetaRef
               /\ targetThetaRef' = targetThetaRef]_vars

\* a drag begun at -45.5 degrees (set with the rotation slider) and pulled
\* 400 pixels to the right: theta is 154.5, the target has taken it over, and
\* the displayed angle is on its way
C18_Witness ==
    /\ dragStart # Null
    /\ dragStart.theta = -45500
    /\ dragStart.x = 0
    /\ app.theta = 154500
    /\ targetThetaRef = 154500
    /\ displayThetaRef > 0
    /\ displayThetaRef < 154500

(***************************************************************************)
(* MohrsCircle: the transform of the zoom + pan group, line 264.  A point  *)
(* is a record [x, y] in hundredths of a pixel; the transforms of the      *)
(* list apply to a point from right to left.                               *)
(***************************************************************************)
SvgTranslate(tx, ty, p) == [x |-> p.x + tx, y |-> p.y + ty]

SvgScale(k, p) == [x |-> MulDiv(p.x, k, ZoomScale), y |-> MulDiv(p.y, k, ZoomScale)]

\* a plausible slip: the pan inside the scale
ViewTransformPanFirst(p, z, pn) ==
    SvgTranslate(cx, cy,
      SvgScale(z, SvgTranslate(pn.x * Px, pn.y * Px, SvgTranslate(-cx, -cy, p))))

\* translate(W/2 + pan.x  H/2 + pan.y) scale(zoom) translate(-W/2  -H/2)
ViewTransform(p, z, pn) ==
    SvgTranslate(cx + pn.x * Px, cy + pn.y * Px,
      SvgScale(z, SvgTranslate(-cx, -cy, p)))

\* drawn points: the centre of the drawing, a corner, and two points of the
\* initial circle
DrawnPoints ==
    { [x |-> cx, y |-> cy], [x |-> 0, y |-> 0],
      [x |-> 60703, y |-> 50813], [x |-> 33700, y |-> 41000] }

PanSteps == { <<1, 0>>, <<0, -7>>, <<30, 20>> }

\* C21: the group maps a drawn point p to c + pan + zoom * (p - c), c the
\* centre of the drawing, so a change of pan by (dx, dy) moves every drawn
\* point by exactly (dx, dy) at every zoom level.
C21_PanAfterZoom ==
    \A p \in DrawnPoints :
      LET q == ViewTransform(p, zoom, pan)
      IN  /\ q.x = cx + pan.x * Px + MulDiv(p.x - cx, zoom, ZoomScale)
          /\ q.y = cy + pan.y * Px + MulDiv(p.y - cy, zoom, ZoomScale)
          /\ \A d \in PanSteps :
               LET r == ViewTransform(p, zoom,
                                      [x |-> pan.x + d[1], y |-> pan.y + d[2]])
               IN  r.x - q.x = d[1] * Px /\ r.y - q.y = d[2] * Px

\* zoomed in to the limit and panned
C21_Witness ==
    /\ zoom = ZoomMax
    /\ pan = [x |-> 30, y |-> 20]
    /\ ~isPanning

(***************************************************************************)
(* The arcs of the circle view                                             *)
(***************************************************************************)
\* C22: the 2-theta arc has large-arc flag 1 exactly when |2 theta| > 180
\* and sweep flag 1 exactly when theta >= 0; the arc from A to P1 has sweep
\* flag 0 exactly when thetaP1 >= 0; for 0 < |2 theta| < 360 the 2-theta arc
\* lies on the circle about the circle centre and spans |2 theta|, and the
\* arc to P1, when A and P1 differ, lies on it and spans |2 thetaP1| (to
\* within the resolution of the angles).
C22_ArcFlags ==
    /\ out.arcs.largeArc = 1 <=> Abs(2 * inp.theta) > 180 * Deg
    /\ out.arcs.sweepArc = 1 <=> inp.theta >= 0
    /\ out.arcs.arcP_sweep = 0 <=> out.mohr.thetaP1 >= 0
    /\ (0 < Abs(2 * inp.theta) /\ Abs(2 * inp.theta) < 360 * Deg) =>
         /\ out.arcs.rotation.drawn
         /\ out.arcs.rotation.centred
         /\ out.arcs.rotation.extent = Abs(2 * inp.theta)
    /\ out.mohr.thetaP1 # 0 =>
         /\ out.arcs.principal.drawn
         /\ out.arcs.principal.centred
         /\ Abs(out.arcs.principal.extent - Abs(2 * out.mohr.thetaP1)) <= 1

\* a rotation of more than half a turn of the circle, clockwise, with the
\* principal direction at a negative angle
C22_Witness ==
    /\ inp.theta = 135 * Deg
    /\ out.arcs.largeArc = 1
    /\ out.arcs.rotation.extent = 270 * Deg
    /\ out.mohr.thetaP1 < 0
    /\ out.arcs.arcP_sweep = 1

(***************************************************************************)
(* The principal angles of the sidebar                                     *)
(***************************************************************************)
\* C23: for every non-degenerate stress state getPrincipalAngles returns two
\* angles in [0, 180) that differ by 90 degrees, the smaller one first.
C23_PrincipalAnglesAscending ==
    ~Hydrostatic =>
      LET p == out.app.principals
      IN  /\ p # Null
          /\ Len(p) = 2
          /\ \A k \in 1..2 : 0 <= p[k] /\ p[k] < 180 * Deg
          /\ Abs(p[2] - p[1]) = 90 * Deg
          /\ p[1] < p[2]

(***************************************************************************)
(* StressGraph: the y axis                                                 *)
(***************************************************************************)
SampleValues ==
    { out.curves.sigmaPoints[k].value : k \in 1..(inp.steps + 1) }
      \cup { out.curves.tauPoints[k].value : k \in 1..(inp.steps + 1) }

\* C24: the axis runs from the smallest sample less 12% of the extent of
\* all sigma and tau samples to the largest plus 12% of it; when all samples
\* are equal the extent counts as one unit (1 MPa); in every case
\* yMax - yMin, the divisor of the y scale, is strictly positive.
C24_AxisRangePositive ==
    LET lo  == SetMin(SampleValues)
        hi  == SetMax(SampleValues)
        ext == IF hi = lo THEN DeciMPa ELSE hi - lo
    IN  /\ out.axis.yMax - out.axis.yMin > 0
        /\ 100 * (lo * AxisScale - out.axis.yMin) = 12 * ext * AxisScale
        /\ 100 * (out.axis.yMax - hi * AxisScale) = 12 * ext * AxisScale

\* the flat input: every sigma and tau sample is zero, over a valid range
C24_Witness ==
    /\ ValidRange
    /\ inp.steps >= 2
    /\ SampleValues = {0}
    /\ out.axis.yMin = -12 * DeciMPa
    /\ out.axis.yMax = 12 * DeciMPa

(***************************************************************************)
(* The parts of the circle that do not turn                                *)
(***************************************************************************)
\* the circle, point A and the principal points as drawn
Fixed(lp) ==
    [circleCX |-> lp.circleCX, circleCY |-> lp.circleCY, circleR |-> lp.circleR,
     aX |-> lp.aX, aY |-> lp.aY,
     p1X |-> lp.p1X, p1Y |-> lp.p1Y, p2X |-> lp.p2X, p2Y |-> lp.p2Y]

\* C25: the circle centre (sigma avg, 0), the radius, point A and the
\* principal points are the same at every theta for the stress at hand, and
\* P1 and P2 lie at centre + R and centre - R on the stress axis.
C25_ThetaLeavesCircle ==
    /\ \A th \in RenderThetas :
         Fixed(LivePoint(inp.sigmaX, inp.sigmaY, inp.tauXY, th)) = Fixed(out.livePoint)
    /\ out.livePoint.circleCX = toSvgX(out.mohr.avg, out.livePoint.scale)
    /\ out.livePoint.circleCY = cy
    /\ out.livePoint.p1X = out.livePoint.circleCX + out.livePoint.circleR
    /\ out.livePoint.p2X = out.livePoint.circleCX - out.livePoint.circleR
    /\ out.livePoint.p1Y = cy
    /\ out.livePoint.p2Y = cy

\* a sheared state turned by 60 degrees: the live point has left A
C25_Witness ==
    /\ inp.theta = 60 * Deg
    /\ inp.tauXY # 0
    /\ out.livePoint.circleR > 0
    /\ out.livePoint.pointX # out.livePoint.aX
    /\ out.livePoint.pointY # out.livePoint.aY

(***************************************************************************)
(* The angle range of the graph                                            *)
(***************************************************************************)
\* C26: from the range (0, 180), after any angle-range edits, thetaMin <
\* thetaMax holds of App's state and of the range every scheduled render of
\* the graph samples with; an entry that is not a number or lies on the wrong
\* side of the other bound leaves both bounds as they were.
C26_RangeStaysOrdered ==
    /\ [](app.thetaMin < app.thetaMax)
    /\ [](\A cb \in sgPending : cb.thetaMin < cb.thetaMax)
    /\ [][\A raw \in ParseFloat : applyMin(raw) =>
            ((raw.isNaN \/ raw.v >= app.thetaMax) => RangeOf(app') = RangeOf(app))]_vars
    /\ [][\A raw \in ParseFloat : applyMax(raw) =>
            ((raw.isNaN \/ raw.v <= app.thetaMin) => RangeOf(app') = RangeOf(app))]_vars

\* the range narrowed to (90, 180) and sampled by a frame; the entry 90 for
\* the maximum is then on the wrong side
C26_Witness ==
    /\ app.thetaMin = 90 * Deg
    /\ app.thetaMax = 180 * Deg
    /\ app = committed
    /\ sgView # Null
    /\ sgView.tauPoints[1].theta = 90 * Deg
    /\ sgView.tauPoints[CurveSteps + 1].theta = 180 * Deg

(***************************************************************************)
(* Markers at a sample that is exactly zero                                *)
(***************************************************************************)
\* C27: when a tau sample at an interior grid angle is exactly zero, the
\* pair ending at that sample and the pair starting at it do not both
\* produce a marker at the same angle.
C27_OneMarkerPerZero ==
    ValidRange =>
      \A k \in 2..inp.steps :
        out.curves.tauPoints[k].value = 0 =>
          ~ \E m1 \in 1..Len(out.markers), m2 \in 1..Len(out.markers) :
              /\ out.markers[m1].pair = k - 1
              /\ out.markers[m2].pair = k
              /\ out.markers[m1].tCross = out.markers[m2].tCross

(***************************************************************************)
(* The live point at the principal angle                                   *)
(***************************************************************************)
\* theta is thetaP1, to within the resolution of the angles
AtPrincipalAngle ==
    /\ ~Hydrostatic
    /\ Abs(inp.theta - out.mohr.thetaP1) <= 1

\* C28: for a non-degenerate stress state at theta = thetaP1 the live point
\* is drawn where P1 is, to within a pixel.
C28_LivePointMeetsP1 ==
    AtPrincipalAngle =>
      /\ Abs(out.livePoint.pointX - out.livePoint.p1X) <= Px
      /\ Abs(out.livePoint.pointY - out.livePoint.p1Y) <= Px

(***************************************************************************)
(* A drag that comes back to where it began                                *)
(***************************************************************************)
\* C29: a move of the pointer to the x at which the drag began leaves theta
\* at the value it had when the drag began, for every theta the controls of
\* the app can set.
C29_ZeroDragKeepsTheta ==
    [][\A x \in DragPointers : BO_handleMouseMove(x) =>
         ((dragStart # Null /\ x = dragStart.x) => app'.theta = dragStart.theta)]_vars

(***************************************************************************)
(* The loops keep going                                                    *)
(***************************************************************************)
\* a step of the loop effect (lines 162-168, 311-315): the pending callbacks
\* change although no frame was spent
SG_Restarted == sgPending' # sgPending /\ budget' = budget

BO_Restarted == boPending' # boPending /\ budget' = budget

\* C30: while the views are mounted each loop has exactly one frame callback
\* pending, and it belongs to the loop in charge; a frame that runs leaves
\* exactly one new callback pending, and so does a restart of a loop by its
\* effect.
C30_LoopNeverStalls ==
    /\ [](mounted => /\ Cardinality(sgPending) = 1
                     /\ Cardinality(boPending) = 1
                     /\ \A cb \in sgPending \cup boPending : cb.live)
    /\ [][\A cb \in sgPending : (SG_Frame(cb) /\ mounted) =>
            /\ Cardinality(sgPending') = 1
            /\ sgPending' \cap sgPending = {}
            /\ Ids(sgPending') = {sgAnimRef'}]_vars
    /\ [][\A cb \in boPending : (BO_Frame(cb) /\ mounted) =>
            /\ Cardinality(boPending') = 1
            /\ boPending' \cap boPending = {}
            /\ Ids(boPending') = {boAnimRef'}]_vars
    /\ [][(SG_Restarted /\ mounted') =>
            /\ Cardinality(sgPending') = 1
            /\ sgPending' \cap sgPending = {}
            /\ Ids(sgPending') = {sgAnimRef'}]_vars
    /\ [][(BO_Restarted /\ mounted') =>
            /\ Cardinality(boPending') = 1
            /\ boPending' \cap boPending = {}
            /\ Ids(boPending') = {boAnimRef'}]_vars

\* both loops were restarted (a new range, a new stress), every frame of the
\* run was spent after that, and each loop still has its callback pending
C30_Witness ==
    /\ mounted
    /\ app = committed
    /\ budget = 0
    /\ app.thetaMin = 90 * Deg
    /\ app.tauXY = -30 * MPa
    /\ boView # Null
    /\ sgView # Null
    /\ Cardinality(sgPending) = 1
    /\ Cardinality(boPending) = 1
====
